---- MODULE Spec2Model ----
(***************************************************************************)
(* A model of the HTTP Server API bridge of node-rust-windows-service:      *)
(* src/src/http.rs (Session, Request and the host-runtime functions over    *)
(* them).  The kernel (HTTP.sys, the handle table, the I/O manager) is the  *)
(* environment: each kernel call is modelled by the effect its Win32       *)
(* documentation gives it.                                                 *)
(*                                                                         *)
(* Three specifications share the module:                                  *)
(*   Spec      the life of one Session: create / open, listen, request,    *)
(*             close from several threads, drop;                           *)
(*   SpecOps   the overlapped operations of the Requests of a session;     *)
(*   SpecHead  receiveHead against the kernel's request queue and the      *)
(*             result record the host runtime gets.                        *)
(***************************************************************************)
EXTENDS Integers, Sequences, FiniteSets

(***************************************************************************)
(* Bounds of the model.                                                    *)
(***************************************************************************)
NThreads == 2
MaxCloses == 3
MaxRequests == 2
MaxListens == 1

Threads == 1..NThreads

\* The threads that call into one Event.
NEvThreads == 3

EvThreads == 1..NEvThreads

(***************************************************************************)
(* Win32 error codes the code compares against or that the kernel reports. *)
(***************************************************************************)
Win32 ==
    [ NO_ERROR                |-> 0,
      ERROR_ACCESS_DENIED     |-> 5,
      ERROR_INVALID_HANDLE    |-> 6,
      ERROR_INVALID_PARAMETER |-> 87,
      ERROR_MORE_DATA         |-> 234,
      ERROR_OPERATION_ABORTED |-> 995,
      ERROR_IO_PENDING        |-> 997,
      ERROR_CONNECTION_INVALID |-> 1229 ]

\* The nonzero codes a failing setup call is given in the model.
SetupErrors == { Win32.ERROR_ACCESS_DENIED, Win32.ERROR_INVALID_PARAMETER }

VARIABLES
    sess,      \* the Session object: how it was built and its fields
    kobj,      \* the kernel objects of the session: absent / open / closed
    klog,      \* the kernel calls that created or released them, in order
    cpc,       \* per thread: position inside Session.close()
    ncloses,   \* Session.close() calls started so far
    dups,      \* the handles Session.request() duplicated
    nlistens,  \* Session.listen() calls so far
    lastErr,   \* the WinError of the last failed Session call
    stale,     \* kernel calls issued on an object already released
    reqs,      \* per Request: its owner, the HandleRef count, the kernel handle
    ops,       \* the operations issued so far, in issue order
    kq,        \* the kernel's request queue: the requests that arrived
    heads,     \* the receiveHead calls made so far, in issue order
    bufs,      \* the buffers of the receives the glue issued, in issue order
    list,      \* CallbackList: the entries, in order
    added,     \* the add() calls made so far, with the token of each
    cbth,      \* per thread: the add() call it is in the middle of
    snap,      \* the entries an extract() copied and still holds
    lastRemove,\* the last remove(): the list before and after it
    ev,        \* Event: the value stored, if any
    evth       \* per thread: the Event call it makes and where it stands

sessionVars ==
    << sess, kobj, klog, cpc, ncloses, dups, nlistens, lastErr, stale >>

opsVars == << reqs, ops >>

headVars == << kq, heads >>

bodyVars == << bufs >>

cbVars == << list, added, cbth, snap, lastRemove >>

evVars == << ev, evth >>

supportVars == << cbVars, evVars >>

vars == << sessionVars, opsVars, headVars, bodyVars, supportVars >>

\* What the actions of one part of the model leave alone.
notSession == << opsVars, headVars, bodyVars, supportVars >>

notOps == << sessionVars, headVars, bodyVars, supportVars >>

notHead == << sessionVars, opsVars, bodyVars, supportVars >>

notBody == << sessionVars, opsVars, headVars, supportVars >>

notCallbacks == << sessionVars, opsVars, headVars, bodyVars, evVars >>

notEvent == << sessionVars, opsVars, headVars, bodyVars, cbVars >>

Range(s) == { s[i] : i \in DOMAIN s }

Reverse(s) == [ i \in 1..Len(s) |-> s[Len(s) + 1 - i] ]

SelectBy(s, who) == SelectSeq(s, LAMBDA e : e.by = who)

Resources(s) == [ i \in 1..Len(s) |-> s[i].res ]

Calls(s) == [ i \in 1..Len(s) |-> s[i].call ]

Count(s, c) == Cardinality({ i \in DOMAIN s : s[i].call = c })

(***************************************************************************)
(* Session::create.  The setup calls in the order the code issues them,    *)
(* the resource each one creates, and what the code releases when the call *)
(* named failAt fails.                                                     *)
(***************************************************************************)
CreateCalls ==
    << "HttpInitialize", "HttpCreateServerSession", "HttpCreateUrlGroup",
       "HttpCreateRequestQueue", "HttpSetUrlGroupProperty" >>

OpenCalls == << "HttpInitialize", "HttpCreateRequestQueue" >>

CreatedBy(call) ==
    CASE call = "HttpCreateServerSession" -> "session"
      [] call = "HttpCreateUrlGroup"      -> "urls"
      [] call = "HttpCreateRequestQueue"  -> "queue"
      [] OTHER                            -> "nothing"

ReleaseOf(call) ==
    CASE call = "HttpCloseServerSession" -> "session"
      [] call = "HttpCloseUrlGroup"      -> "urls"
      [] call = "CloseHandle"            -> "queue"

\* The identifier the kernel hands out for a resource (any nonzero value).
KernelId(res) ==
    CASE res = "session" -> 1
      [] res = "urls"    -> 2
      [] res = "queue"   -> 3

IndexOf(s, x) == CHOOSE i \in DOMAIN s : s[i] = x

\* The calls of `calls` that ran and succeeded before failAt ("none": all).
Succeeded(calls, failAt) ==
    IF failAt = "none" THEN calls
    ELSE SubSeq(calls, 1, IndexOf(calls, failAt) - 1)

CreateEntries(calls, failAt) ==
    LET ok == SelectSeq(Succeeded(calls, failAt),
                        LAMBDA c : CreatedBy(c) # "nothing")
    IN  [ i \in 1..Len(ok) |->
            [ call |-> ok[i], res |-> CreatedBy(ok[i]),
              arg |-> KernelId(CreatedBy(ok[i])), by |-> "create" ] ]

\* The release calls of each failure branch of Session::create, as written.
Rollback(failAt) ==
    CASE failAt = "HttpCreateUrlGroup" ->
            << "HttpCloseServerSession" >>
      [] failAt = "HttpCreateRequestQueue" ->
            << "HttpCloseServerSession", "HttpCloseUrlGroup" >>
      [] failAt = "HttpSetUrlGroupProperty" ->
            << "HttpCloseUrlGroup", "HttpCloseServerSession", "CloseHandle" >>
      [] OTHER -> << >>

ReleaseEntries(calls, ids, who) ==
    [ i \in 1..Len(calls) |->
        [ call |-> calls[i], res |-> ReleaseOf(calls[i]),
          arg |-> ids[ReleaseOf(calls[i])], by |-> who ] ]

\* The kernel's side of a sequence of create / release calls: a create call
\* opens its object, a release call with the object's id closes it, and a
\* release call with an id the kernel does not know (0) changes nothing.
RECURSIVE ApplyLog(_, _)
ApplyLog(k, log) ==
    IF log = << >> THEN k
    ELSE LET e == Head(log)
             k1 == IF e.by = "create" /\ e.call \in Range(CreateCalls)
                   THEN [k EXCEPT ![e.res] = "open"]
                   ELSE IF e.arg = KernelId(e.res) /\ k[e.res] = "open"
                        THEN [k EXCEPT ![e.res] = "closed"]
                        ELSE k
         IN  ApplyLog(k1, Tail(log))

NoSession ==
    [ state |-> "none", ctor |-> "none", name |-> "None",
      controller |-> FALSE, queue |-> -1, session |-> 0, urls |-> 0, active |-> FALSE ]

\* WinError(name, code) as the code builds it, with the call that really failed.
WinError(named, failed, code) ==
    [ named |-> named, failed |-> failed, code |-> code ]

NoError == WinError("none", "none", 0)

SessionIds(s) == [ session |-> s.session, urls |-> s.urls, queue |-> s.queue ]

\* Fault: every session built by create counts as a controller.
AlwaysController(name) == TRUE

\* Session::create: `controller` is set where a name was given.
IsController(name) == name # "None"

\* sess.name keeps the name the constructor was given (it is no field of the
\* Session).
Create(name, failAt, code) ==
    /\ sess.state = "none"
    /\ LET made == CreateEntries(CreateCalls, failAt)
           ids  == [ r \in {"session", "urls", "queue"} |-> KernelId(r) ]
           undo == ReleaseEntries(Rollback(failAt), ids, "rollback")
       IN  /\ klog' = klog \o made \o undo
           /\ kobj' = ApplyLog(kobj, made \o undo)
           /\ sess' =
                IF failAt = "none"
                THEN [ state |-> "live", ctor |-> "create", name |-> name,
                       controller |-> IsController(name),
                       queue |-> KernelId("queue"),
                       session |-> KernelId("session"),
                       urls |-> KernelId("urls"),
                       active |-> FALSE ]
                ELSE [ NoSession EXCEPT !.state = "failed", !.ctor = "create" ]
    /\ lastErr' = IF failAt = "none" THEN NoError
                  ELSE WinError(failAt, failAt, code)
    /\ UNCHANGED << cpc, ncloses, dups, nlistens, stale, notSession >>

\* Fault: a worker that holds the controller's ids.
WorkerIdsOfController == [ session |-> KernelId("session"), urls |-> KernelId("urls") ]

\* The ids of a session built by Session::open: session: 0, urls: 0.
WorkerIds == [ session |-> 0, urls |-> 0 ]

Open(failAt, code) ==
    /\ sess.state = "none"
    /\ LET made == CreateEntries(OpenCalls, failAt)
       IN  /\ klog' = klog \o made
           /\ kobj' = ApplyLog(kobj, made)
           /\ sess' =
                IF failAt = "none"
                THEN [ state |-> "live", ctor |-> "open", name |-> "queue",
                       controller |-> FALSE,
                       queue |-> KernelId("queue"),
                       session |-> WorkerIds.session, urls |-> WorkerIds.urls,
                       active |-> FALSE ]
                ELSE [ NoSession EXCEPT !.state = "failed", !.ctor = "open" ]
    /\ lastErr' = IF failAt = "none" THEN NoError
                  ELSE WinError(failAt, failAt, code)
    /\ UNCHANGED << cpc, ncloses, dups, nlistens, stale, notSession >>

(***************************************************************************)
(* Session::listen: HttpAddUrlToUrlGroup on self.urls, with no look at     *)
(* `active`.  The kernel accepts the call only for an open URL group.      *)
(***************************************************************************)
Listen(ok, code) ==
    /\ sess.state = "live"
    /\ nlistens < MaxListens
    /\ nlistens' = nlistens + 1
    /\ LET known == sess.urls = KernelId("urls") /\ kobj["urls"] = "open"
           err   == IF ~known THEN Win32.ERROR_INVALID_PARAMETER
                    ELSE IF ok THEN 0 ELSE code
       IN  /\ lastErr' = IF err = 0 THEN NoError
                         ELSE WinError("HttpSetUrlGroupProperty",
                                       "HttpAddUrlToUrlGroup", err)
           /\ stale' = IF kobj["urls"] = "closed" /\ sess.urls # 0
                       THEN stale \cup {"HttpAddUrlToUrlGroup"} ELSE stale
    /\ UNCHANGED << sess, kobj, klog, cpc, ncloses, dups, notSession >>

(***************************************************************************)
(* bind_io(queue): enrols the handle with the completion mechanism and     *)
(* reports success; it leaves the handle open either way.                  *)
(***************************************************************************)
bind_io(h, ok) == [ h EXCEPT !.enrolled = ok ]

(***************************************************************************)
(* Session::request: DuplicateHandle on self.queue, then bind_io, then the *)
(* Request.  `outcome` is what the kernel makes of the two calls.          *)
(***************************************************************************)
RequestNew(outcome, code) ==
    /\ sess.state = "live"
    /\ Len(dups) < MaxRequests
    /\ LET qopen == kobj["queue"] = "open"
           dupOk == qopen /\ outcome # "dupfail"
           h0    == [ state |-> "open", enrolled |-> FALSE, owned |-> FALSE ]
           h1    == bind_io(h0, outcome = "ok")
       IN  /\ stale' = IF ~qopen THEN stale \cup {"DuplicateHandle"} ELSE stale
           /\ IF ~dupOk
              THEN /\ dups' = dups
                   /\ lastErr' = WinError("DuplicateHandle", "DuplicateHandle",
                                   IF qopen THEN code
                                   ELSE Win32.ERROR_INVALID_HANDLE)
              ELSE IF ~h1.enrolled
              THEN /\ dups' = Append(dups, h1)
                   /\ lastErr' = WinError("BindIoCompletionCallback",
                                          "BindIoCompletionCallback", code)
              ELSE /\ dups' = Append(dups, [h1 EXCEPT !.owned = TRUE])
                   /\ lastErr' = NoError
    /\ UNCHANGED << sess, kobj, klog, cpc, ncloses, nlistens, notSession >>

(***************************************************************************)
(* Session::close.  active.swap(true, Relaxed) is one atomic step; the     *)
(* three release calls that follow it are one step each, so that closes    *)
(* from several threads interleave.                                        *)
(***************************************************************************)
\* Fault: the flag is read and never set.
SwapNoStore(active) == [ old |-> active, new |-> active ]

\* active.swap(true, Relaxed): the old value, and true stored.
Swap(active) == [ old |-> active, new |-> TRUE ]

\* Fault: the server session released before its URL group.
CloseStepsSessionFirst ==
    << "HttpCloseServerSession", "HttpCloseUrlGroup", "CloseHandle" >>

\* The release calls of Session::close in the order written.
CloseSteps == << "HttpCloseUrlGroup", "HttpCloseServerSession", "CloseHandle" >>

CloseBegin(t) ==
    /\ sess.state = "live"
    /\ cpc[t] = 0
    /\ ncloses < MaxCloses
    /\ ncloses' = ncloses + 1
    /\ LET s == Swap(sess.active)
       IN  /\ sess' = [sess EXCEPT !.active = s.new]
           /\ cpc' = [cpc EXCEPT ![t] = IF s.old THEN 0 ELSE 1]
    /\ UNCHANGED << kobj, klog, dups, nlistens, lastErr, stale, notSession >>

CloseStep(t) ==
    /\ cpc[t] \in 1..Len(CloseSteps)
    /\ LET e == ReleaseEntries(<< CloseSteps[cpc[t]] >>, SessionIds(sess), "close")
       IN  /\ klog' = klog \o e
           /\ kobj' = ApplyLog(kobj, e)
    /\ cpc' = [cpc EXCEPT ![t] = IF cpc[t] = Len(CloseSteps) THEN 0 ELSE cpc[t] + 1]
    /\ UNCHANGED << sess, ncloses, dups, nlistens, lastErr, stale, notSession >>

(***************************************************************************)
(* Drop for Session: close() with exclusive access, once no thread is      *)
(* inside a call on the session; the Session is gone afterwards.           *)
(***************************************************************************)
DropSession ==
    /\ sess.state = "live"
    /\ \A t \in Threads : cpc[t] = 0
    /\ LET s == Swap(sess.active)
           e == IF s.old THEN << >>
                ELSE ReleaseEntries(CloseSteps, SessionIds(sess), "close")
       IN  /\ sess' = [sess EXCEPT !.active = s.new, !.state = "dropped"]
           /\ klog' = klog \o e
           /\ kobj' = ApplyLog(kobj, e)
    /\ UNCHANGED << cpc, ncloses, dups, nlistens, lastErr, stale, notSession >>

SessionInit ==
    /\ sess = NoSession
    /\ kobj = [ r \in {"session", "urls", "queue"} |-> "absent" ]
    /\ klog = << >>
    /\ cpc = [ t \in Threads |-> 0 ]
    /\ ncloses = 0
    /\ dups = << >>
    /\ nlistens = 0
    /\ lastErr = NoError
    /\ stale = {}

SessionNext ==
    \/ \E name \in {"None", "queue"}, code \in SetupErrors,
          failAt \in Range(CreateCalls) \cup {"none"} :
            Create(name, failAt, code)
    \/ \E code \in SetupErrors, failAt \in Range(OpenCalls) \cup {"none"} :
            Open(failAt, code)
    \/ \E ok \in BOOLEAN, code \in SetupErrors : Listen(ok, code)
    \/ \E outcome \in {"ok", "dupfail", "bindfail"}, code \in SetupErrors :
            RequestNew(outcome, code)
    \/ \E t \in Threads : CloseBegin(t)
    \/ \E t \in Threads : CloseStep(t)
    \/ DropSession

(***************************************************************************)
(* The overlapped operations of the Requests of a live session.            *)
(***************************************************************************)
MaxOps == 2

\* The model follows the operations of one Request of the session.
ReqIds == {1}

\* The codes a receive call completes with in the model, beside cancellation.
OpCodes == { 0, Win32.ERROR_CONNECTION_INVALID }

\* Fault: the operation uses the Request's HandleRef without a clone.
CloneArcUncounted(n) == n

\* self.arc.clone(): one more owner of the HandleRef.
CloneArc(n) == n + 1

\* Fault: every operation uses one and the same helper.
SharedHelper(issued) == 1

\* OverlappedHelper::new(): a completion token of the operation's own.
NewHelper(issued) == Len(issued) + 1

\* Dropping one owner of the HandleRef; the last one releases the handle.
DropArc(r) ==
    [ r EXCEPT !.refs = r.refs - 1,
               !.handle = IF r.refs - 1 = 0 THEN "closed" ELSE r.handle ]

\* CancelIo(handle) on thread t: the kernel marks for cancellation the I/O
\* in flight on the handle that thread t issued, and no other thread's.
CancelIo(issued, r, t) ==
    [ o \in DOMAIN issued |->
        IF issued[o].req = r /\ issued[o].io /\ issued[o].thread = t
        THEN [ issued[o] EXCEPT !.cancel = TRUE ]
        ELSE issued[o] ]

\* The operations on r that a close() finds in flight.
MarkClosed(issued, r) ==
    [ o \in DOMAIN issued |->
        IF issued[o].req = r /\ issued[o].io
        THEN [ issued[o] EXCEPT !.closedDuring = TRUE ]
        ELSE issued[o] ]

\* Whether some operation on r is still unresolved.
Busy(issued, r) ==
    \E o \in DOMAIN issued : issued[o].req = r /\ issued[o].state # "resolved"

(***************************************************************************)
(* Request::receive / Request::receive_data: clone the HandleRef, make a   *)
(* helper, issue the kernel call and finish().  `out` is what the kernel   *)
(* call returns: a code at once, or ERROR_IO_PENDING.  With a code at once *)
(* finish() returns without suspending and the clone is dropped again.     *)
(* The two functions differ in the kernel call and the result type only,   *)
(* which the life of the operation does not depend on.                     *)
(***************************************************************************)
Issue(t, r, out) ==
    /\ reqs[r].owner = "live"
    /\ Len(ops) < MaxOps
    /\ LET pending == out = Win32.ERROR_IO_PENDING
           held == CloneArc(reqs[r].refs)
           op == [ req |-> r, thread |-> t,
                   token |-> NewHelper(ops),
                   io |-> pending,
                   state |-> IF pending THEN "waiting" ELSE "resolved",
                   err |-> IF pending THEN 0 ELSE out,
                   done |-> IF pending THEN 0 ELSE 1,
                   cancel |-> FALSE, closedDuring |-> FALSE ]
       IN  /\ ops' = Append(ops, op)
           /\ reqs' = [ reqs EXCEPT ![r] =
                          IF pending THEN [ @ EXCEPT !.refs = held ]
                          ELSE DropArc([ @ EXCEPT !.refs = held ]) ]
    /\ UNCHANGED notOps

Receive(t, r, out) == Issue(t, r, out)

ReceiveData(t, r, out) == Issue(t, r, out)

(***************************************************************************)
(* The kernel completes the I/O of operation o (with the cancellation code *)
(* when it was marked) and the completion callback runs with o's token: it *)
(* hands the code to the operation waiting on that token.                  *)
(***************************************************************************)
Complete(o, code) ==
    /\ o \in DOMAIN ops
    /\ ops[o].io
    /\ LET c == IF ops[o].cancel THEN Win32.ERROR_OPERATION_ABORTED ELSE code
       IN  ops' = [ p \in DOMAIN ops |->
                      LET q == IF p = o THEN [ ops[p] EXCEPT !.io = FALSE ]
                               ELSE ops[p]
                      IN  IF q.token = ops[o].token
                          THEN [ q EXCEPT !.done = IF @ < 2 THEN @ + 1 ELSE @,
                                          !.err = c,
                                          !.state = IF @ = "waiting"
                                                    THEN "woken" ELSE @ ]
                          ELSE q ]
    /\ UNCHANGED << notOps, reqs >>

\* The suspended receive resumes with its result and drops its HandleRef.
Resume(o) ==
    /\ o \in DOMAIN ops
    /\ ops[o].state = "woken"
    /\ ops' = [ ops EXCEPT ![o].state = "resolved" ]
    /\ reqs' = [ reqs EXCEPT ![ops[o].req] = DropArc(@) ]
    /\ UNCHANGED notOps

\* Request::close: CancelIo on the calling thread, nothing else.
RequestClose(t, r) ==
    /\ reqs[r].owner = "live"
    /\ ops' = CancelIo(MarkClosed(ops, r), r, t)
    /\ UNCHANGED << notOps, reqs >>

\* Drop for Request: close(), then the Request's own HandleRef goes.
DropRequest(t, r) ==
    /\ reqs[r].owner = "live"
    /\ ops' = CancelIo(MarkClosed(ops, r), r, t)
    /\ reqs' = [ reqs EXCEPT ![r] =
                   DropArc([ @ EXCEPT !.owner = "dropped",
                                      !.busyDrop = Busy(ops, r) ]) ]
    /\ UNCHANGED notOps

OpsNext ==
    \/ \E t \in Threads, r \in ReqIds,
          out \in OpCodes \cup {Win32.ERROR_IO_PENDING} : Receive(t, r, out)
    \/ \E t \in Threads, r \in ReqIds,
          out \in OpCodes \cup {Win32.ERROR_IO_PENDING} : ReceiveData(t, r, out)
    \/ \E o \in 1..MaxOps, code \in OpCodes : Complete(o, code)
    \/ \E o \in 1..MaxOps : Resume(o)
    \/ \E t \in Threads, r \in ReqIds : RequestClose(t, r)
    \/ \E t \in Threads, r \in ReqIds : DropRequest(t, r)

\* No Request yet: the state of the operations while the session is set up.
OpsIdle ==
    /\ reqs = [ r \in ReqIds |->
                  [ owner |-> "none", refs |-> 0, handle |-> "none",
                    busyDrop |-> FALSE ] ]
    /\ ops = << >>

\* A controller session that has handed out a Request, which holds the one
\* HandleRef that HandleRef::new(queue) made.
SessionServing ==
    /\ sess = [ state |-> "live", ctor |-> "create", name |-> "queue",
                controller |-> TRUE,
                queue |-> KernelId("queue"), session |-> KernelId("session"),
                urls |-> KernelId("urls"), active |-> FALSE ]
    /\ kobj = [ r \in {"session", "urls", "queue"} |-> "open" ]
    /\ klog = CreateEntries(CreateCalls, "none")
    /\ cpc = [ t \in Threads |-> 0 ]
    /\ ncloses = 0
    /\ dups = [ r \in ReqIds |->
                  [ state |-> "open", enrolled |-> TRUE, owned |-> TRUE ] ]
    /\ nlistens = 0
    /\ lastErr = NoError
    /\ stale = {}

RequestsLive ==
    /\ reqs = [ r \in ReqIds |->
                  [ owner |-> "live", refs |-> 1, handle |-> "open",
                    busyDrop |-> FALSE ] ]
    /\ ops = << >>

HeadIdle ==
    /\ kq = << >>
    /\ heads = << >>

BodyIdle == bufs = << >>

\* CallbackList::new: the empty list.
CallbacksIdle ==
    /\ list = << >>
    /\ added = << >>
    /\ cbth = [ t \in Threads |-> [ pc |-> "idle", call |-> 0 ] ]
    /\ snap = << >>
    /\ lastRemove = [ call |-> 0, before |-> << >>, after |-> << >> ]

\* Event::new: nothing stored, no call made.
EventIdle ==
    /\ ev = [ some |-> FALSE, value |-> FALSE ]
    /\ evth = [ t \in EvThreads |->
                  [ op |-> "none", arg |-> FALSE, pc |-> "idle",
                    ret |-> FALSE ] ]

SupportIdle == CallbacksIdle /\ EventIdle

OpsInit == SessionServing /\ RequestsLive /\ HeadIdle /\ BodyIdle /\ SupportIdle

Init == SessionInit /\ OpsIdle /\ HeadIdle /\ BodyIdle /\ SupportIdle

Next == SessionNext

Spec == Init /\ [][Next]_vars

SpecOps == OpsInit /\ [][OpsNext]_vars

(***************************************************************************)
(* receiveHead against the kernel's request queue.  Request i of kq is the *)
(* i-th request that arrived; the kernel gives it the request id i.  A     *)
(* request is claimed once a receive with id 0 was given it.               *)
(***************************************************************************)
MaxArrivals == 2
MaxHeads == 2
MaxSize == 2

Sizes == 1..MaxSize

\* HTTP_VERB value of the arriving requests (HttpVerbGET).
Verbs == { 4 }

Claimed == { i \in DOMAIN kq : kq[i].claimed }

Unclaimed == { i \in DOMAIN kq : ~kq[i].claimed }

NextUnclaimed == CHOOSE i \in Unclaimed : \A j \in Unclaimed : i <= j

\* What HttpReceiveHttpRequest writes for request i into a buffer of `cap`:
\* the whole head when it fits, else ERROR_MORE_DATA with the request id.
KernelHead(i, cap) ==
    IF cap >= kq[i].size
    THEN [ code |-> 0, RequestId |-> i, Verb |-> kq[i].verb,
           Version |-> kq[i].version, url |-> kq[i].url ]
    ELSE [ code |-> Win32.ERROR_MORE_DATA, RequestId |-> i, Verb |-> 0,
           Version |-> << 0, 0 >>, url |-> "" ]

KernelNoRequest(code) ==
    [ code |-> code, RequestId |-> 0, Verb |-> 0, Version |-> << 0, 0 >>,
      url |-> "" ]

\* HttpReceiveHttpRequest(handle, id, ...) at issue time.
KernelReceive(id, cap) ==
    IF id = 0
    THEN IF Unclaimed = {} THEN KernelNoRequest(Win32.ERROR_IO_PENDING)
         ELSE KernelHead(NextUnclaimed, cap)
    ELSE IF id \in Claimed THEN KernelHead(id, cap)
         ELSE KernelNoRequest(Win32.ERROR_CONNECTION_INVALID)

\* OverlappedResult after finish(): the final code, and `more` for the
\* more-data code.
Finish(k) ==
    [ err |-> k.code, more |-> (k.code = Win32.ERROR_MORE_DATA), Base |-> k ]

\* obj.set(key, value) on a host-runtime object.
Set(obj, key, value) ==
    [ x \in DOMAIN obj \cup {key} |-> IF x = key THEN value ELSE obj[x] ]

FormatVersion(ver) == << ver[1], ".", ver[2] >>

\* The settle closure of http_request_receive: the result record.
HeadRecord(result) ==
    LET info == result.Base
        obj0 == Set(Set(<< >>, "code", result.err), "more", result.more)
        obj1 == Set(obj0, "id", info.RequestId)
        obj2 == Set(obj1, "verb", info.Verb)
        obj3 == Set(obj2, "verb", FormatVersion(info.Version))
        obj4 == IF info.url # "" THEN Set(obj3, "url", info.url) ELSE obj3
    IN  IF result.err # 0 THEN obj0
        ELSE IF result.more THEN obj1
        ELSE obj4

Arrive(size, verb) ==
    /\ Len(kq) < MaxArrivals
    /\ kq' = Append(kq, [ size |-> size, verb |-> verb, version |-> << 1, 1 >>,
                          url |-> "/", claimed |-> FALSE ])
    /\ UNCHANGED << notHead, heads >>

Claim(q, k) ==
    IF k.RequestId = 0 THEN q
    ELSE [ q EXCEPT ![k.RequestId].claimed = TRUE ]

\* What Request::receive hands to finish(): the value the kernel call returned.
FinishErrZero(err) == 0

FinishErr(err) == err

\* http_request_receive: Request::receive(id, Auto(size)), then the record.
\* `issued` keeps what the kernel call returned at issue time.
ReceiveHead(id, cap) ==
    /\ reqs[1].owner = "live"
    /\ Len(heads) < MaxHeads
    /\ LET k == KernelReceive(id, cap)
           seen == [ k EXCEPT !.code = FinishErr(k.code) ]
           pending == seen.code = Win32.ERROR_IO_PENDING
       IN  /\ kq' = Claim(kq, k)
           /\ heads' = Append(heads,
                 [ id |-> id, cap |-> cap, at |-> Len(heads) + 1,
                   issued |-> k.code,
                   state |-> IF pending THEN "waiting" ELSE "resolved",
                   kernel |-> seen,
                   record |-> IF pending THEN << >>
                                         ELSE HeadRecord(Finish(seen)) ])
    /\ UNCHANGED notHead

\* A request is there for a receive that was left pending: the kernel
\* completes it, and the suspended receive resumes and settles its promise.
Deliver(h) ==
    /\ h \in DOMAIN heads
    /\ heads[h].state = "waiting"
    /\ Unclaimed # {}
    /\ LET k == KernelHead(NextUnclaimed, heads[h].cap)
       IN  /\ kq' = Claim(kq, k)
           /\ heads' = [ heads EXCEPT ![h].state = "resolved",
                                      ![h].kernel = k,
                                      ![h].record = HeadRecord(Finish(k)) ]
    /\ UNCHANGED notHead

HeadNext ==
    \/ \E size \in Sizes, verb \in Verbs : Arrive(size, verb)
    \/ \E id \in 0..MaxArrivals, cap \in Sizes : ReceiveHead(id, cap)
    \/ \E h \in 1..MaxHeads : Deliver(h)

HeadInit == SessionServing /\ RequestsLive /\ HeadIdle /\ BodyIdle /\ SupportIdle

SpecHead == HeadInit /\ [][HeadNext]_vars

(***************************************************************************)
(* The buffers the kernel writes into.  http_request_receive_data gives    *)
(* the receive an array buffer of the host runtime, which the runtime's    *)
(* collector frees once nothing roots or reaches it; http_request_receive  *)
(* lets the OverlappedResult allocate one (Auto), which lives as long as   *)
(* the result does.                                                        *)
(***************************************************************************)
MaxBufs == 3

\* Fault: the array buffer is handed to the kernel without a root.
Unrooted(b) == b

\* data.root(&mut cx): a rooted array buffer is kept alive by the runtime.
Root(b) == [ b EXCEPT !.rooted = TRUE ]

\* cx.array_buffer(size): fresh memory of the host runtime that no script
\* value reaches yet.
ArrayBuffer(id) ==
    [ id |-> id, kind |-> "body", mem |-> "alive", rooted |-> FALSE,
      exposed |-> FALSE ]

\* Auto(size): fresh memory owned by the OverlappedResult.
AutoBuffer(id) ==
    [ id |-> id, kind |-> "head", mem |-> "alive", rooted |-> FALSE,
      exposed |-> FALSE ]

\* The kernel call with the buffer's pointer, and finish(): in flight when
\* the call returned pending, else complete with the code it returned.
Started(buffer, out) ==
    LET pending == out = Win32.ERROR_IO_PENDING
    IN  [ buf |-> buffer, waited |-> pending,
          state |-> IF pending THEN "inflight" ELSE "completed",
          err |-> IF pending THEN 0 ELSE out,
          wroteFreed |-> FALSE ]

\* http_request_receive_data up to spawn_ok.
ReceiveBodyBuf(out) ==
    /\ reqs[1].owner = "live"
    /\ Len(bufs) < MaxBufs
    /\ bufs' = Append(bufs, Started(Root(ArrayBuffer(Len(bufs) + 1)), out))
    /\ UNCHANGED notBody

\* http_request_receive up to spawn_ok.
ReceiveHeadBuf(out) ==
    /\ reqs[1].owner = "live"
    /\ Len(bufs) < MaxBufs
    /\ bufs' = Append(bufs, Started(AutoBuffer(Len(bufs) + 1), out))
    /\ UNCHANGED notBody

\* The host runtime's collector frees an array buffer that is neither
\* rooted nor reachable from a value the script holds.
Collect(b) ==
    /\ b \in DOMAIN bufs
    /\ bufs[b].buf.kind = "body"
    /\ bufs[b].buf.mem = "alive"
    /\ ~bufs[b].buf.rooted
    /\ ~bufs[b].buf.exposed
    /\ bufs' = [ bufs EXCEPT ![b].buf.mem = "freed" ]
    /\ UNCHANGED notBody

\* The kernel writes the data into the buffer it was given and completes
\* the operation.
CompleteBuf(b, code) ==
    /\ b \in DOMAIN bufs
    /\ bufs[b].state = "inflight"
    /\ bufs' = [ bufs EXCEPT ![b].state = "completed",
                             ![b].err = code,
                             ![b].wroteFreed = (bufs[b].buf.mem = "freed") ]
    /\ UNCHANGED notBody

\* The settle closure.  For a body: with an error the root is dropped; else
\* root.to_inner gives the array buffer, which becomes the record's data.
\* For a head: the record is built from the result, which is then dropped
\* with its buffer.
SettleBuf(b) ==
    /\ b \in DOMAIN bufs
    /\ bufs[b].state = "completed"
    /\ bufs' = [ bufs EXCEPT
                   ![b].state = "settled",
                   ![b].buf = IF @.kind = "head"
                              THEN [ @ EXCEPT !.mem = "freed" ]
                              ELSE [ @ EXCEPT !.rooted = FALSE,
                                              !.exposed = (bufs[b].err = 0) ] ]
    /\ UNCHANGED notBody

BodyNext ==
    \/ \E out \in OpCodes \cup {Win32.ERROR_IO_PENDING} : ReceiveBodyBuf(out)
    \/ \E out \in OpCodes \cup {Win32.ERROR_IO_PENDING} : ReceiveHeadBuf(out)
    \/ \E b \in 1..MaxBufs : Collect(b)
    \/ \E b \in 1..MaxBufs, code \in OpCodes : CompleteBuf(b, code)
    \/ \E b \in 1..MaxBufs : SettleBuf(b)

BodyInit == SessionServing /\ RequestsLive /\ HeadIdle /\ BodyIdle /\ SupportIdle

SpecBody == BodyInit /\ [][BodyNext]_vars

(***************************************************************************)
(* CallbackList (support.rs).  An entry is an Arc around the rooted        *)
(* function; the token add() returns is the address of that Arc's          *)
(* allocation.  The allocator gives a new Arc any address that no live Arc *)
(* has: an Arc lives while the list, a copy made by extract() or the add() *)
(* that made it holds it.  Every access to the list is made under its      *)
(* mutex, so each is one step.  An entry also carries the number of the    *)
(* add() call that made it, which the code does not keep.                  *)
(***************************************************************************)
MaxAdds == 3
MaxAddr == 2

Addrs == 1..MaxAddr

Fns == { "f", "g" }

Tokens(entries) == { entries[i].token : i \in DOMAIN entries }

InAdd == { t \in Threads : cbth[t].pc # "idle" }

\* The addresses of the Arcs alive.
LiveAddrs ==
    Tokens(list) \cup Tokens(snap) \cup { added[cbth[t].call].token : t \in InAdd }

\* list.retain(|(_, x)| Arc::as_ptr(&x) as usize != ptr)
Retain(entries, ptr) == SelectSeq(entries, LAMBDA e : e.token # ptr)

\* add: Arc::new(f.root(cx)).
AddAlloc(t, f, a) ==
    /\ cbth[t].pc = "idle"
    /\ Len(added) < MaxAdds
    /\ a \notin LiveAddrs
    /\ added' = Append(added, [ token |-> a, fn |-> f, returned |-> FALSE ])
    /\ cbth' = [ cbth EXCEPT ![t] = [ pc |-> "made", call |-> Len(added) + 1 ] ]
    /\ UNCHANGED << list, snap, lastRemove, notCallbacks >>

\* add: list.push((tx, root.clone())) under the lock.
AddPush(t) ==
    /\ cbth[t].pc = "made"
    /\ LET c == cbth[t].call
       IN  list' = Append(list, [ token |-> added[c].token, fn |-> added[c].fn,
                                  call |-> c ])
    /\ cbth' = [ cbth EXCEPT ![t].pc = "pushed" ]
    /\ UNCHANGED << added, snap, lastRemove, notCallbacks >>

\* add returns Arc::as_ptr(&root) as usize; its own `root` is dropped.
AddReturn(t) ==
    /\ cbth[t].pc = "pushed"
    /\ added' = [ added EXCEPT ![cbth[t].call].returned = TRUE ]
    /\ cbth' = [ cbth EXCEPT ![t] = [ pc |-> "idle", call |-> 0 ] ]
    /\ UNCHANGED << list, snap, lastRemove, notCallbacks >>

\* remove(ptr), with the token that add() call c returned.
Remove(t, c) ==
    /\ c \in DOMAIN added
    /\ added[c].returned
    /\ list' = Retain(list, added[c].token)
    /\ lastRemove' = [ call |-> c, before |-> list, after |-> list' ]
    /\ UNCHANGED << added, cbth, snap, notCallbacks >>

Clear(t) ==
    /\ list # << >>
    /\ list' = << >>
    /\ UNCHANGED << added, cbth, snap, lastRemove, notCallbacks >>

\* extract(), as notify_with calls it: a copy of the list, entries cloned.
Extract ==
    /\ snap = << >>
    /\ list # << >>
    /\ snap' = list
    /\ UNCHANGED << list, added, cbth, lastRemove, notCallbacks >>

\* The closures notify_with sent have run and dropped their entries.
Release ==
    /\ snap # << >>
    /\ snap' = << >>
    /\ UNCHANGED << list, added, cbth, lastRemove, notCallbacks >>

CallbacksNext ==
    \/ \E t \in Threads, f \in Fns, a \in Addrs : AddAlloc(t, f, a)
    \/ \E t \in Threads : AddPush(t)
    \/ \E t \in Threads : AddReturn(t)
    \/ \E t \in Threads, c \in 1..MaxAdds : Remove(t, c)
    \/ \E t \in Threads : Clear(t)
    \/ Extract
    \/ Release

CallbacksInit == SessionInit /\ OpsIdle /\ HeadIdle /\ BodyIdle /\ SupportIdle

SpecCallbacks == CallbacksInit /\ [][CallbacksNext]_vars

(***************************************************************************)
(* Event (support.rs): an Option<bool> under a mutex, and a condition      *)
(* variable.  Each thread makes one call; evth[t].pc = "done" says it has  *)
(* returned, with evth[t].ret.  What a call does while it holds the mutex  *)
(* is one step.                                                            *)
(***************************************************************************)
\* Fault: set() without the look at the stored value.
NeverSet(state) == FALSE

\* (*state).is_some()
AlreadySet(state) == state.some

\* set(value) under the lock: return false when a value is stored, else
\* store the value.
SetStore(t, value) ==
    /\ evth[t].pc = "idle"
    /\ IF AlreadySet(ev)
       THEN /\ evth' = [ evth EXCEPT ![t] = [ op |-> "set", arg |-> value,
                                              pc |-> "done", ret |-> FALSE ] ]
            /\ ev' = ev
       ELSE /\ evth' = [ evth EXCEPT ![t] = [ op |-> "set", arg |-> value,
                                              pc |-> "stored", ret |-> FALSE ] ]
            /\ ev' = [ some |-> TRUE, value |-> value ]
    /\ UNCHANGED notEvent

\* set: sem.notify_all() wakes every thread blocked in wait; return true.
SetNotify(t) ==
    /\ evth[t].pc = "stored"
    /\ evth' = [ u \in EvThreads |->
                   IF u = t THEN [ evth[u] EXCEPT !.pc = "done", !.ret = TRUE ]
                   ELSE IF evth[u].pc = "blocked"
                        THEN [ evth[u] EXCEPT !.pc = "woken" ]
                        ELSE evth[u] ]
    /\ UNCHANGED << ev, notEvent >>

\* wait() under the lock: return the stored value, or block in sem.wait,
\* which gives up the lock.
WaitBegin(t) ==
    /\ evth[t].pc = "idle"
    /\ evth' = [ evth EXCEPT ![t] =
                   IF ev.some
                   THEN [ op |-> "wait", arg |-> FALSE, pc |-> "done",
                          ret |-> ev.value ]
                   ELSE [ op |-> "wait", arg |-> FALSE, pc |-> "blocked",
                          ret |-> FALSE ] ]
    /\ UNCHANGED << ev, notEvent >>

\* Condvar::wait may wake without a notification.
SpuriousWake(t) ==
    /\ evth[t].pc = "blocked"
    /\ evth' = [ evth EXCEPT ![t].pc = "woken" ]
    /\ UNCHANGED << ev, notEvent >>

\* wait() after sem.wait returned, the lock held again: the stored value if
\* there is one, else the `return false` at the end.
WaitResume(t) ==
    /\ evth[t].pc = "woken"
    /\ evth' = [ evth EXCEPT ![t].pc = "done",
                             ![t].ret = IF ev.some THEN ev.value ELSE FALSE ]
    /\ UNCHANGED << ev, notEvent >>

EventNext ==
    \/ \E t \in EvThreads, value \in BOOLEAN : SetStore(t, value)
    \/ \E t \in EvThreads : SetNotify(t)
    \/ \E t \in EvThreads : WaitBegin(t)
    \/ \E t \in EvThreads : SpuriousWake(t)
    \/ \E t \in EvThreads : WaitResume(t)

EventInit == SessionInit /\ OpsIdle /\ HeadIdle /\ BodyIdle /\ SupportIdle

SpecEvent == EventInit /\ [][EventNext]_vars

(***************************************************************************)
(* Properties of the Session (checked under Spec).                         *)
(***************************************************************************)
CloseLog == SelectBy(klog, "close")

RollbackLog == SelectBy(klog, "rollback")

CreateLog == SelectBy(klog, "create")

CloseCalled == ncloses >= 1 \/ sess.state = "dropped"

NoCloseRunning == \A t \in Threads : cpc[t] = 0

\* C1: however many Session.close() calls are made, from whichever threads
\* and in whatever interleaving, the implicit one of Drop included, each
\* of HttpCloseUrlGroup, HttpCloseServerSession and CloseHandle is executed
\* at most once at every moment, and exactly once as soon as a close has
\* been called and no thread is still inside one.
C1_CloseReleasesOnce ==
    \A c \in { "HttpCloseUrlGroup", "HttpCloseServerSession", "CloseHandle" } :
        /\ Count(CloseLog, c) <= 1
        /\ (CloseCalled /\ NoCloseRunning) => Count(CloseLog, c) = 1

\* Several explicit closes and then the drop, all releases made.
C1_Witness ==
    /\ sess.state = "dropped"
    /\ ncloses >= 2
    /\ Len(CloseLog) = 3

\* C4 (as claimed): after a failed Session.create no kernel object is left
\* open and the releases were made in the reverse of the creation order.
C4_RollbackReverseOrder ==
    (sess.state = "failed" /\ sess.ctor = "create") =>
        /\ \A r \in DOMAIN kobj : kobj[r] # "open"
        /\ Resources(RollbackLog) = Reverse(Resources(CreateLog))

\* C5 (as claimed): a duplicated queue handle is open only as the handle
\* of a returned Request, duplicated and enrolled; none stays open after
\* Session.request() returned an error.
C5_RequestSetupAtomic ==
    \A i \in DOMAIN dups :
        dups[i].state = "open" => (dups[i].enrolled /\ dups[i].owned)

\* C7 (as claimed): close() on a session built by Session.open issues no
\* HttpCloseUrlGroup and no HttpCloseServerSession, only CloseHandle.
C7_WorkerCloseOnlyQueue ==
    sess.ctor = "open" =>
        \A i \in DOMAIN CloseLog : CloseLog[i].call = "CloseHandle"

\* C7 (amended): close() on a session built by Session.open releases no
\* URL group and no server session: the HttpCloseUrlGroup and
\* HttpCloseServerSession calls it issues carry the id 0, which names no
\* kernel object, and the one kernel object it changes is the worker's
\* queue handle, released by CloseHandle.
C7_WorkerCloseReleasesOnlyQueue ==
    sess.ctor = "open" =>
        /\ \A i \in DOMAIN CloseLog :
              \/ CloseLog[i].call = "CloseHandle" /\ CloseLog[i].arg = sess.queue
              \/ CloseLog[i].call # "CloseHandle" /\ CloseLog[i].arg = 0
        /\ kobj["session"] = "absent" /\ kobj["urls"] = "absent"
        /\ Len(CloseLog) = 3 => kobj["queue"] = "closed"

\* A worker session whose close has issued its three calls.
C7_Witness ==
    /\ sess.ctor = "open"
    /\ Len(CloseLog) = 3
    /\ kobj["queue"] = "closed"

\* C8: the release calls of Session.close() are issued in the order URL
\* group, server session, queue handle: at every moment the calls made so
\* far are a prefix of that order, so the group goes before its session.
C8_CloseOrder ==
    LET order == << "HttpCloseUrlGroup", "HttpCloseServerSession", "CloseHandle" >>
    IN  /\ Len(CloseLog) <= Len(order)
        /\ Calls(CloseLog) = SubSeq(order, 1, Len(CloseLog))

\* A controller's close in progress with the group released, the session
\* released and the queue handle still to go, while a second close ran.
C8_Witness ==
    /\ sess.ctor = "create"
    /\ Len(CloseLog) = 2
    /\ kobj["urls"] = "closed" /\ kobj["session"] = "closed"
    /\ kobj["queue"] = "open"
    /\ ncloses >= 2

C3_CloseCancelsAll ==
    \A o \in DOMAIN ops :
        ops[o].closedDuring =>
            /\ ops[o].io => ops[o].cancel
            /\ ~ops[o].io => ops[o].err = Win32.ERROR_OPERATION_ABORTED

\* C6: the duplicated handle of a Request is released only after the
\* Request was dropped (a close() alone never releases it) and only when no
\* operation issued on it is still unresolved.
C6_HandleOutlivesOps ==
    \A r \in ReqIds :
        reqs[r].handle = "closed" =>
            /\ reqs[r].owner = "dropped"
            /\ \A o \in DOMAIN ops :
                 ops[o].req = r => ops[o].state = "resolved"

\* A Request dropped with an operation in flight; the handle was released
\* once that operation had resolved.
C6_Witness ==
    \E r \in ReqIds :
        /\ reqs[r].handle = "closed"
        /\ reqs[r].busyDrop
        /\ \E o \in DOMAIN ops :
             ops[o].req = r /\ ops[o].closedDuring /\ ops[o].state = "resolved"

(***************************************************************************)
(* Properties of the receiveHead result record (checked under SpecHead).   *)
(***************************************************************************)
Resolved(h) == h \in DOMAIN heads /\ heads[h].state = "resolved"

\* C9 (as claimed): the record of a resolved receiveHead is a tri-state:
\* with code 0 and more false it carries the payload (the request id, the
\* URL); with more true, the kernel having reported the more-data code, it
\* carries the request id for the retry; with any other nonzero code it
\* carries nothing beside code and more.
C9_TriState ==
    \A h \in DOMAIN heads :
        Resolved(h) =>
            LET r == heads[h].record
                k == heads[h].kernel
            IN  /\ (r.code = 0 /\ ~r.more) =>
                      /\ {"id", "url"} \subseteq DOMAIN r
                      /\ r.id = k.RequestId
                /\ (k.code = Win32.ERROR_MORE_DATA) =>
                      /\ r.more
                      /\ "id" \in DOMAIN r
                      /\ r.id = k.RequestId
                /\ (r.code # 0 /\ ~r.more) => DOMAIN r = {"code", "more"}

\* C10 (as claimed): when a receiveHead resolved with more true for the
\* request the kernel numbered R, and a later receiveHead issued with id R
\* and a buffer the head fits in succeeded, then the first record carries
\* the id R, the second carries the same id, and its more is false.
C10_RetryRoundTrip ==
    \A h1, h2 \in DOMAIN heads :
        ( /\ h1 < h2
          /\ Resolved(h1) /\ Resolved(h2)
          /\ heads[h1].record.more
          /\ heads[h2].id = heads[h1].kernel.RequestId
          /\ heads[h2].cap >= kq[heads[h2].id].size
          /\ heads[h2].record.code = 0 )
        => /\ "id" \in DOMAIN heads[h1].record
           /\ heads[h2].record.id = heads[h1].record.id
           /\ ~heads[h2].record.more

C12_ErrorNamesFailedCall ==
    lastErr # NoError =>
        /\ lastErr.named = lastErr.failed
        /\ lastErr.code # 0

\* Operations issued on Request r that have not resolved yet.
Unresolved(r) ==
    { o \in DOMAIN ops : ops[o].req = r /\ ops[o].state # "resolved" }

\* A receive that resolved with an error code of its own (not the
\* cancellation code of a close).
Failed(o) ==
    /\ ops[o].state = "resolved"
    /\ ops[o].err = Win32.ERROR_CONNECTION_INVALID

\* C13: a receive that failed leaves the Request as it was before the
\* receive: while the Request is not dropped its handle stays open and
\* enrolled, and it is referenced only by its owner and by the operations
\* still unresolved, so that further receives can be issued on it.
C13_FailedReceiveLeavesRequest ==
    \A o \in DOMAIN ops :
        LET r == ops[o].req
        IN  (Failed(o) /\ reqs[r].owner = "live") =>
                /\ reqs[r].handle = "open"
                /\ reqs[r].refs = 1 + Cardinality(Unresolved(r))
                /\ dups[r].state = "open"
                /\ dups[r].enrolled

\* After a receive that failed, a later receive issued on the same Request,
\* still open, resolved with code 0.
C13_Witness ==
    \E o1, o2 \in DOMAIN ops :
        /\ o1 < o2
        /\ ops[o1].req = ops[o2].req
        /\ Failed(o1) /\ ops[o1].done = 1 /\ ~ops[o1].closedDuring
        /\ ops[o2].state = "resolved" /\ ops[o2].err = 0
        /\ ops[o2].token # ops[o1].token
        /\ reqs[ops[o1].req].owner = "live"
        /\ reqs[ops[o1].req].handle = "open"

\* The fields of the Session that say what it is.
Identity(s) ==
    [ controller |-> s.controller, session |-> s.session, urls |-> s.urls ]

Built == sess.state \in {"live", "dropped"}

\* C14: a Session is a controller exactly when Session.create built it with
\* a queue name; a Session built by Session.open is no controller and has
\* the session id and the URL group id 0; and no operation on a Session
\* (listen, request, close, the drop) changes these fields.
C14_ControllerFixed ==
    /\ [](Built =>
            /\ sess.controller <=> (sess.ctor = "create" /\ sess.name # "None")
            /\ sess.ctor = "open" =>
                   /\ ~sess.controller
                   /\ sess.session = 0
                   /\ sess.urls = 0)
    /\ [][Built => (Built' /\ Identity(sess') = Identity(sess))]_vars

\* A worker Session after its close() ran to the end.
C14_Witness ==
    /\ Built
    /\ sess.ctor = "open"
    /\ sess.active
    /\ CloseLog # << >>
    /\ \A t \in Threads : cpc[t] = 0

\* C15: while an operation is in flight its buffer is alive, is the buffer
\* of no other operation and is not reachable by the consumer; the kernel
\* never wrote into freed memory; and an array buffer given to receiveBody
\* is in the consumer's hands only once its receive has resolved, with
\* code 0.
C15_BufferOutlivesIo ==
    \A b \in DOMAIN bufs :
        /\ bufs[b].state = "inflight" =>
              /\ bufs[b].buf.mem = "alive"
              /\ ~bufs[b].buf.exposed
              /\ \A c \in DOMAIN bufs : c # b => bufs[c].buf.id # bufs[b].buf.id
        /\ ~bufs[b].wroteFreed
        /\ bufs[b].buf.exposed => (bufs[b].state = "settled" /\ bufs[b].err = 0)

\* A receiveBody that was left pending has resolved and its array buffer is
\* the record's data, while the buffer of a failed receiveBody was collected.
C15_Witness ==
    \E b, c \in DOMAIN bufs :
        /\ bufs[b].buf.kind = "body"
        /\ bufs[b].waited
        /\ bufs[b].buf.exposed
        /\ bufs[c].buf.kind = "body"
        /\ bufs[c].waited
        /\ bufs[c].buf.mem = "freed"

\* C16 (as claimed): the record of a receiveHead that succeeded carries the
\* method id and the version string under two fields, verb and version.
C16_VerbAndVersion ==
    \A h \in DOMAIN heads :
        (Resolved(h) /\ heads[h].record.code = 0 /\ ~heads[h].record.more) =>
            LET r == heads[h].record
                k == heads[h].kernel
            IN  /\ {"verb", "version"} \subseteq DOMAIN r
                /\ r.verb = k.Verb
                /\ r.version = FormatVersion(k.Version)

\* C17 (as claimed): remove(token) takes out exactly the entry made by the
\* add() call that returned the token and leaves the other entries as they
\* were, in their order; and two entries of the list never have the same
\* token, also when they hold the same function.
C17_RemoveExactlyOwnEntry ==
    /\ lastRemove.call # 0 =>
          lastRemove.after =
              SelectSeq(lastRemove.before, LAMBDA e : e.call # lastRemove.call)
    /\ \A i, j \in DOMAIN list : i # j => list[i].token # list[j].token

\* The set() calls that stored their value: they return true.
Winners ==
    { t \in EvThreads :
        /\ evth[t].op = "set"
        /\ evth[t].pc = "stored" \/ (evth[t].pc = "done" /\ evth[t].ret) }

\* The set() calls that returned false.
Losers ==
    { t \in EvThreads :
        evth[t].op = "set" /\ evth[t].pc = "done" /\ ~evth[t].ret }

\* C18: of all the set() calls made on an Event at most one stores its value
\* and returns true, and once any set() call was made one has; the value
\* stored is that call's argument, whatever the other calls, which return
\* false, were given.
C18_SetOnce ==
    /\ Cardinality(Winners) <= 1
    /\ ev.some <=> Winners # {}
    /\ Losers # {} => Winners # {}
    /\ \A t \in Winners : ev.value = evth[t].arg

\* Three set() calls have returned, one of them with true, and one that
\* returned false was given the other value.
C18_Witness ==
    /\ \A t \in EvThreads : evth[t].op = "set" /\ evth[t].pc = "done"
    /\ \E t \in Winners, u \in Losers : evth[u].arg # evth[t].arg

\* C19 (as claimed): a wait() that has returned did so after a set() call
\* stored a value, and returned that value.
C19_WaitReturnsSetValue ==
    \A t \in EvThreads :
        (evth[t].op = "wait" /\ evth[t].pc = "done") =>
            /\ ev.some
            /\ evth[t].ret = ev.value

\* C20 (as claimed): no Session operation hands a kernel object that was
\* already released to a kernel call: after close(), listen() and request()
\* issue no HttpAddUrlToUrlGroup on the URL group and no DuplicateHandle on
\* the queue handle that close() released.
C20_NoCallOnReleased == stale = {}

====
